---- MODULE Spec2Model ----
(***************************************************************************)
(* Model of uBERTa/base.py: the module's top-level statements executed in  *)
(* order when it is loaded (either imported or run as the entry point),    *)
(* followed by the operations a consumer can perform on the objects the    *)
(* module defines: a tuple of chromosome names, a dict of flank pairs and  *)
(* six namedtuple record types.                                           *)
(***************************************************************************)
EXTENDS Integers, Sequences, FiniteSets, TLC

VARIABLES
    sys,                 \* the interpreter: sys.version (text) and sys.version_info
    name,                \* __name__ of the module being loaded
    pc,                  \* the top-level statement to execute next
    VALID_CHROM,         \* module global (line 4), <<>> until assigned
    VALID_CHROM_FLANKS,  \* module global (line 5), the dict's current content
    classes,             \* module globals bound to record types / factories
    result               \* what the consumer's last operation returned or raised

vars == <<sys, name, pc, VALID_CHROM, VALID_CHROM_FLANKS, classes, result>>

----------------------------------------------------------------------------
(* Bounds of the model *)

MaxMinor == 12      \* interpreter versions 3.MinMinor .. 3.MaxMinor
MaxArgs  == 6       \* positional arguments passed to a constructor

\* the oldest interpreter that can compile the file (f-string on line 4)
MinMinor == 6

----------------------------------------------------------------------------
(* Text: a string is handled as a sequence of one-character strings where   *)
(* the code compares or formats it character by character.                 *)

DigitChars == <<"0", "1", "2", "3", "4", "5", "6", "7", "8", "9">>

\* str(i) for i >= 0: the decimal digits, most significant first
RECURSIVE FormatInt(_)
FormatInt(i) ==
    IF i < 10 THEN <<DigitChars[i + 1]>>
    ELSE Append(FormatInt(i \div 10), DigitChars[(i % 10) + 1])

\* ''.join(chars)
RECURSIVE Join(_)
Join(cs) == IF cs = <<>> THEN "" ELSE Head(cs) \o Join(Tail(cs))

\* ord(c) for the characters a version text is made of
Ord(c) ==
    CASE c = " " -> 32
      [] c = "." -> 46
      [] OTHER   -> 47 + CHOOSE k \in 1..10 : DigitChars[k] = c

\* a < b on str: lexicographic by code point, a proper prefix is smaller
RECURSIVE StrLess(_, _)
StrLess(a, b) ==
    IF b = <<>> THEN FALSE
    ELSE IF a = <<>> THEN TRUE
    ELSE IF Ord(Head(a)) # Ord(Head(b)) THEN Ord(Head(a)) < Ord(Head(b))
    ELSE StrLess(Tail(a), Tail(b))

\* sys.version of interpreter major.minor.micro: "3.10.4 (main, ..." up to
\* and including the blank that follows the version number
VersionText(info) ==
    FormatInt(info[1]) \o <<".">> \o FormatInt(info[2]) \o <<".">>
        \o FormatInt(info[3]) \o <<" ">>

\* the interpreters the module is loaded by (the patch level never reaches
\* the comparison on line 38, which is decided within "3.x")
Interpreters == { <<3, minor, 0>> : minor \in MinMinor..MaxMinor }

----------------------------------------------------------------------------
(* Line 4: VALID_CHROM *)

\* range(n) started at one instead of zero
RangeFromOne(n) == [i \in 1..n |-> i]

\* range(n) as a sequence
Range(n) == [i \in 1..n |-> i - 1]

\* f'chr{i}'
ChromName(i) == "chr" \o Join(FormatInt(i))

\* (*(f'chr{i}' for i in range(23)), 'chrX', 'chrY')
ChromTuple ==
    [k \in 1..Len(Range(23)) |-> ChromName(Range(23)[k])] \o <<"chrX", "chrY">>

(* Lines 5-30: the dict display *)
FlankLiteral ==
    ("chr1"  :> <<10000, 10000>>)     @@ ("chr2"  :> <<10000, 10000>>) @@
    ("chr3"  :> <<10000, 60000>>)     @@ ("chr4"  :> <<10000, 10000>>) @@
    ("chr5"  :> <<10000, 60000>>)     @@ ("chr6"  :> <<60000, 60000>>) @@
    ("chr7"  :> <<10000, 10000>>)     @@ ("chr8"  :> <<60000, 60000>>) @@
    ("chr9"  :> <<10000, 60000>>)     @@ ("chr10" :> <<10000, 10000>>) @@
    ("chr11" :> <<60000, 10000>>)     @@ ("chr12" :> <<10000, 10000>>) @@
    ("chr13" :> <<16000000, 10000>>)  @@ ("chr14" :> <<16000000, 160000>>) @@
    ("chr15" :> <<17000000, 10000>>)  @@ ("chr16" :> <<10000, 110000>>) @@
    ("chr17" :> <<60000, 10000>>)     @@ ("chr18" :> <<10000, 110000>>) @@
    ("chr19" :> <<60000, 10000>>)     @@ ("chr20" :> <<60000, 110000>>) @@
    ("chr21" :> <<5010000, 10000>>)   @@ ("chr22" :> <<10510000, 10000>>) @@
    ("chrX"  :> <<10000, 10000>>)     @@ ("chrY"  :> <<10000, 10000>>)

(* Lines 32-36 *)
_columns ==
    <<"chrom", "start", "end", "codon", "strand", "gene_id", "group",
      "level", "analyzed", "positive">>

\* the labels of start and end exchanged
_defaultsSwapped ==
    <<"Chrom", "StartCodonEnd", "StartCodonStart", "StartCodonFetched",
      "Strand", "GeneIDUnique", "Group", "LevelStartCodonStartFetchedAround2",
      "IsAnalyzed", "IsPositive">>

_defaults ==
    <<"Chrom", "StartCodonStart", "StartCodonEnd", "StartCodonFetched",
      "Strand", "GeneIDUnique", "Group", "LevelStartCodonStartFetchedAround2",
      "IsAnalyzed", "IsPositive">>

----------------------------------------------------------------------------
(* collections.namedtuple as the module uses it (lines 39-48) *)

\* namedtuple(typename, field_names, defaults=...): the record type
NamedTuple(typename, fields, defaults) ==
    [kind |-> "namedtuple", typename |-> typename,
     fields |-> fields, defaults |-> defaults]

TypeError == [tag |-> "TypeError"]
AttributeError == [tag |-> "AttributeError"]
KeyError == [tag |-> "KeyError"]
None == [tag |-> "None"]

\* the value passed for keyword f
KwVal(f) == "kw_" \o f

SeqElems(s) == { s[i] : i \in 1..Len(s) }

\* a constructor that fills a field left without a value instead of raising
NTNewPadded(cls, args, kw) ==
    IF Len(args) > Len(cls.fields) THEN TypeError
    ELSE [tag |-> "record",
          typename |-> cls.typename,
          fields |-> cls.fields,
          values |-> [i \in 1..Len(cls.fields) |->
                        IF i <= Len(args) THEN args[i] ELSE "None"]]

\* cls(*args, **kw) for a namedtuple type: kw is the set of keywords given.
\* Defaults belong to the rightmost parameters; a positional count above the
\* field count, an unknown keyword, a field given twice or a field without a
\* value is a TypeError and no record is made.
NTNew(cls, args, kw) ==
    LET n == Len(cls.fields)
        d == Len(cls.defaults)
        a == Len(args)
    IN  IF a > n THEN TypeError
        ELSE IF \E k \in kw : k \notin SeqElems(cls.fields) THEN TypeError
        ELSE IF \E i \in 1..a : cls.fields[i] \in kw THEN TypeError
        ELSE IF \E i \in (a + 1)..n : cls.fields[i] \notin kw /\ i <= n - d
             THEN TypeError
        ELSE [tag |-> "record",
              typename |-> cls.typename,
              fields |-> cls.fields,
              values |-> [i \in 1..n |->
                            IF i <= a THEN args[i]
                            ELSE IF cls.fields[i] \in kw THEN KwVal(cls.fields[i])
                            ELSE cls.defaults[i - (n - d)]]]

\* lambda: namedtuple('ColNames', _columns)(*_defaults)   (line 39)
ColNamesFactory ==
    [kind |-> "lambda", typename |-> "ColNames",
     fields |-> _columns, defaults |-> _defaults]

\* calling whatever a module global is bound to
Call(c, args, kw) ==
    IF c.kind = "lambda"
    THEN IF args # <<>> \/ kw # {} THEN TypeError
         ELSE NTNew(NamedTuple(c.typename, c.fields, <<>>), c.defaults, {})
    ELSE NTNew(c, args, kw)

\* line 38: sys.version < "3.7"
IsLegacy(version) == StrLess(version, <<"3", ".", "7">>)

\* lines 38-41: what ColNames is bound to
ColNamesFor(version) ==
    IF IsLegacy(version) THEN ColNamesFactory
    ELSE NamedTuple("ColNames", _columns, _defaults)

\* lines 43-48: field lists
ModelSetupFields == <<"Config", "Model", "Tokenizer", "ModelPath">>
RunSetupFields == <<"BatchSize", "Epochs", "WarmupPerc">>
OptSetupFields == <<"LearningRate", "Epsilon", "Betas", "WeightDecay">>
StopSetupFields == <<"Rounds", "Tolerance">>
\* roc_auc and f1 exchanged
ScoresFieldsSwapped == <<"acc", "f1", "roc_auc", "prec", "rec">>
ScoresFields == <<"acc", "roc_auc", "f1", "prec", "rec">>

\* the guard inverted
IsMainInverted(n) == n # "__main__"

\* line 51: __name__ == '__main__'
IsMain(n) == n = "__main__"

----------------------------------------------------------------------------
(* Loading the module: one action per top-level statement *)

Init ==
    /\ \E info \in Interpreters :
          sys = [version |-> VersionText(info), version_info |-> info]
    /\ name \in {"__main__", "uBERTa.base"}
    /\ pc = "L4"
    /\ VALID_CHROM = <<>>
    /\ VALID_CHROM_FLANKS = <<>>
    /\ classes = <<>>
    /\ result = None

Bind(g, c, next) ==
    /\ classes' = (g :> c) @@ classes
    /\ pc' = next
    /\ UNCHANGED <<sys, name, VALID_CHROM, VALID_CHROM_FLANKS, result>>

DefValidChrom ==
    /\ pc = "L4"
    /\ VALID_CHROM' = ChromTuple
    /\ pc' = "L5"
    /\ UNCHANGED <<sys, name, VALID_CHROM_FLANKS, classes, result>>

\* a table with an entry for every name of VALID_CHROM, chr0 included
DefValidChromFlanksAllNames ==
    /\ pc = "L5"
    /\ VALID_CHROM_FLANKS' = ("chr0" :> <<10000, 10000>>) @@ FlankLiteral
    /\ pc' = "L38"
    /\ UNCHANGED <<sys, name, VALID_CHROM, classes, result>>

\* a table with an entry for a name VALID_CHROM lacks
DefValidChromFlanksChrM ==
    /\ pc = "L5"
    /\ VALID_CHROM_FLANKS' = ("chrM" :> <<10000, 10000>>) @@ FlankLiteral
    /\ pc' = "L38"
    /\ UNCHANGED <<sys, name, VALID_CHROM, classes, result>>

\* a table with upstream and downstream flank exchanged
DefValidChromFlanksSwapped ==
    /\ pc = "L5"
    /\ VALID_CHROM_FLANKS' =
          [k \in DOMAIN FlankLiteral |-> <<FlankLiteral[k][2], FlankLiteral[k][1]>>]
    /\ pc' = "L38"
    /\ UNCHANGED <<sys, name, VALID_CHROM, classes, result>>

DefValidChromFlanks ==
    /\ pc = "L5"
    /\ VALID_CHROM_FLANKS' = FlankLiteral
    /\ pc' = "L38"
    /\ UNCHANGED <<sys, name, VALID_CHROM, classes, result>>

DefColNames ==
    /\ pc = "L38"
    /\ Bind("ColNames", ColNamesFor(sys.version), "L43")

DefModelSetup ==
    /\ pc = "L43"
    /\ Bind("ModelSetup", NamedTuple("Setup", ModelSetupFields, <<>>), "L44")

DefRunSetup ==
    /\ pc = "L44"
    /\ Bind("RunSetup", NamedTuple("Setup", RunSetupFields, <<>>), "L45")

DefOptSetup ==
    /\ pc = "L45"
    /\ Bind("OptSetup", NamedTuple("Setup", OptSetupFields, <<>>), "L46")

DefStopSetup ==
    /\ pc = "L46"
    /\ Bind("StopSetup", NamedTuple("Setup", StopSetupFields, <<>>), "L48")

DefScores ==
    /\ pc = "L48"
    /\ Bind("Scores", NamedTuple("Scores", ScoresFields, <<>>), "L51")

\* lines 51-52: raise RuntimeError() when run as the entry point
MainGuard ==
    /\ pc = "L51"
    /\ pc' = IF IsMain(name) THEN "RuntimeError" ELSE "loaded"
    /\ UNCHANGED <<sys, name, VALID_CHROM, VALID_CHROM_FLANKS, classes, result>>

Load ==
    \/ DefValidChrom
    \/ DefValidChromFlanks
    \/ DefColNames
    \/ DefModelSetup
    \/ DefRunSetup
    \/ DefOptSetup
    \/ DefStopSetup
    \/ DefScores
    \/ MainGuard

----------------------------------------------------------------------------
(* A consumer of the imported module: reads *)

\* positional arguments a1, a2, ..., an: distinct, so that order is visible
PosArgs(n) == [i \in 1..n |-> "a" \o Join(FormatInt(i))]

LookupKeys == SeqElems(VALID_CHROM) \cup {"chrM"}

\* VALID_CHROM_FLANKS[k]
Lookup(k) ==
    /\ pc = "loaded"
    /\ result' = IF k \in DOMAIN VALID_CHROM_FLANKS
                 THEN [tag |-> "pair", key |-> k, val |-> VALID_CHROM_FLANKS[k]]
                 ELSE [tag |-> "KeyError", key |-> k]
    /\ UNCHANGED <<sys, name, pc, VALID_CHROM, VALID_CHROM_FLANKS, classes>>

\* keyword arguments tried: none, one field of the type, or a name it lacks
KwChoices(g) ==
    {{}} \cup { {f} : f \in SeqElems(classes[g].fields) \cup {"unknown"} }

\* base.<g>(a1, ..., an, **kw)
Construct(g, n, kw) ==
    /\ pc = "loaded"
    /\ result' = [call |-> [g |-> g, n |-> n, kw |-> kw]]
                    @@ Call(classes[g], PosArgs(n), kw)
    /\ UNCHANGED <<sys, name, pc, VALID_CHROM, VALID_CHROM_FLANKS, classes>>

Read ==
    \/ \E k \in LookupKeys : Lookup(k)
    \/ \E g \in DOMAIN classes, n \in 0..MaxArgs :
          \E kw \in KwChoices(g) : Construct(g, n, kw)

Next == Load \/ Read

Spec == Init /\ [][Next]_vars

----------------------------------------------------------------------------
(* A consumer of the imported module: writes.  VALID_CHROM is a tuple and   *)
(* the records are namedtuple instances (tuples with __slots__ = ()), so    *)
(* item and attribute assignment raise; VALID_CHROM_FLANKS is a plain dict. *)

WriteKeys == {"chr0", "chr1"}
WriteVals == {<<0, 0>>}

\* VALID_CHROM_FLANKS[k] = v
SetItem(k, v) ==
    /\ pc = "loaded"
    /\ VALID_CHROM_FLANKS' = (k :> v) @@ VALID_CHROM_FLANKS
    /\ result' = None
    /\ UNCHANGED <<sys, name, pc, VALID_CHROM, classes>>

\* del VALID_CHROM_FLANKS[k]
DelItem(k) ==
    /\ pc = "loaded"
    /\ IF k \in DOMAIN VALID_CHROM_FLANKS
       THEN /\ VALID_CHROM_FLANKS' =
                  [x \in DOMAIN VALID_CHROM_FLANKS \ {k} |-> VALID_CHROM_FLANKS[x]]
            /\ result' = None
       ELSE /\ result' = [tag |-> "KeyError", key |-> k]
            /\ UNCHANGED VALID_CHROM_FLANKS
    /\ UNCHANGED <<sys, name, pc, VALID_CHROM, classes>>

\* VALID_CHROM[i] = v
TupleSetItem(i, v) ==
    /\ pc = "loaded"
    /\ result' = [tag |-> "TypeError", index |-> i]
    /\ UNCHANGED <<sys, name, pc, VALID_CHROM, VALID_CHROM_FLANKS, classes>>

\* r.<f> = v on the record r just constructed
SetAttr(f, v) ==
    /\ pc = "loaded"
    /\ result.tag = "record"
    /\ result' = [result EXCEPT !.tag = "AttributeError"]
    /\ UNCHANGED <<sys, name, pc, VALID_CHROM, VALID_CHROM_FLANKS, classes>>

Write ==
    \/ \E k \in WriteKeys, v \in WriteVals : SetItem(k, v)
    \/ \E k \in WriteKeys : DelItem(k)
    \/ \E i \in 1..Len(VALID_CHROM) : TupleSetItem(i, "chrM")
    \/ \E f \in {"chrom", "unknown"} : SetAttr(f, "x")

NextConsumer == Load \/ Read \/ Write

ConsumerSpec == Init /\ [][NextConsumer]_vars

----------------------------------------------------------------------------
(* Properties *)

Statements == <<"L4", "L5", "L38", "L43", "L44", "L45", "L46", "L48", "L51">>

StmtIndex(l) == CHOOSE i \in 1..Len(Statements) : Statements[i] = l

\* the statement at label l has been executed
Executed(l) ==
    \/ pc \in {"loaded", "RuntimeError"}
    \/ StmtIndex(pc) > StmtIndex(l)

NoDuplicates(s) == \A i, j \in 1..Len(s) : i # j => s[i] # s[j]

\* the consumer's last operation was a call of module global g
IsCallOf(g) == "call" \in DOMAIN result /\ result.call.g = g

\* C1: VALID_CHROM has exactly 25 entries: chr0, chr1, ..., chr22, chrX, chrY,
\* in that order, each exactly once and nothing else.
C1_ValidChrom ==
    Executed("L4") =>
        /\ Len(VALID_CHROM) = 25
        /\ NoDuplicates(VALID_CHROM)
        /\ VALID_CHROM =
             <<"chr0", "chr1", "chr2", "chr3", "chr4", "chr5", "chr6", "chr7",
               "chr8", "chr9", "chr10", "chr11", "chr12", "chr13", "chr14",
               "chr15", "chr16", "chr17", "chr18", "chr19", "chr20", "chr21",
               "chr22", "chrX", "chrY">>

C1_Witness == pc = "loaded" /\ Len(VALID_CHROM) > 0 /\ VALID_CHROM[11] = "chr10"

\* C2: the flank table has exactly 24 entries, its key set is exactly
\* {chr1, ..., chr22, chrX, chrY}; chr0 is in VALID_CHROM but has no entry.
C2_FlankKeys ==
    Executed("L5") =>
        /\ Cardinality(DOMAIN VALID_CHROM_FLANKS) = 24
        /\ DOMAIN VALID_CHROM_FLANKS =
             {"chr1", "chr2", "chr3", "chr4", "chr5", "chr6", "chr7", "chr8",
              "chr9", "chr10", "chr11", "chr12", "chr13", "chr14", "chr15",
              "chr16", "chr17", "chr18", "chr19", "chr20", "chr21", "chr22",
              "chrX", "chrY"}
        /\ "chr0" \notin DOMAIN VALID_CHROM_FLANKS
        /\ "chr0" \in SeqElems(VALID_CHROM)

C2_Witness == result.tag = "KeyError" /\ result.key = "chr0"

\* C4: every key of the flank table is a member of VALID_CHROM and every
\* value is a pair (length exactly 2) of non-negative integers.
C4_FlankShape ==
    Executed("L5") =>
        \A k \in DOMAIN VALID_CHROM_FLANKS :
            /\ k \in SeqElems(VALID_CHROM)
            /\ DOMAIN VALID_CHROM_FLANKS[k] = 1..2
            /\ VALID_CHROM_FLANKS[k][1] \in Nat
            /\ VALID_CHROM_FLANKS[k][2] \in Nat

C4_Witness ==
    pc = "loaded" /\ result.tag = "pair" /\ result.key = "chrY" /\ Len(result.val) = 2

\* C5: run as the entry point, the module ends in RuntimeError, after every
\* definition has been evaluated, and never ends loaded; imported, it ends
\* loaded and never raises; loading never stops before one of the two.
AllDefined ==
    /\ VALID_CHROM # <<>>
    /\ VALID_CHROM_FLANKS # <<>>
    /\ DOMAIN classes =
         {"ColNames", "ModelSetup", "RunSetup", "OptSetup", "StopSetup", "Scores"}

C5_MainGuard ==
    /\ pc = "RuntimeError" => name = "__main__" /\ AllDefined
    /\ pc = "loaded" => name # "__main__" /\ AllDefined
    /\ pc \notin {"loaded", "RuntimeError"} => ENABLED Load
    /\ name = "__main__" => result = None

C5_Witness == pc = "RuntimeError" /\ name = "__main__"

ColNamesColumns ==
    <<"chrom", "start", "end", "codon", "strand", "gene_id", "group", "level",
      "analyzed", "positive">>

ColNamesLabels ==
    <<"Chrom", "StartCodonStart", "StartCodonEnd", "StartCodonFetched", "Strand",
      "GeneIDUnique", "Group", "LevelStartCodonStartFetchedAround2",
      "IsAnalyzed", "IsPositive">>

\* C6: ColNames has exactly the 10 fields chrom, start, end, codon, strand,
\* gene_id, group, level, analyzed, positive, in that order, and ColNames()
\* returns a record whose i-th field holds the i-th default label.
C6_ColNamesDefaults ==
    /\ Executed("L38") =>
          /\ Len(classes["ColNames"].fields) = 10
          /\ classes["ColNames"].fields = ColNamesColumns
    /\ (IsCallOf("ColNames") /\ result.call.n = 0 /\ result.call.kw = {}) =>
          /\ result.tag = "record"
          /\ result.fields = ColNamesColumns
          /\ result.values = ColNamesLabels

C6_Witness ==
    IsCallOf("ColNames") /\ result.call.n = 0 /\ result.call.kw = {}
        /\ result.tag = "record"

SetupFields ==
    [ModelSetup |-> <<"Config", "Model", "Tokenizer", "ModelPath">>,
     RunSetup   |-> <<"BatchSize", "Epochs", "WarmupPerc">>,
     OptSetup   |-> <<"LearningRate", "Epsilon", "Betas", "WeightDecay">>,
     StopSetup  |-> <<"Rounds", "Tolerance">>]

\* C7: ModelSetup, RunSetup, OptSetup and StopSetup each have their fixed
\* ordered field list and no defaults; a call with fewer or more values than
\* fields is an error and yields no record, a call with exactly that many
\* yields a record holding the values in field order.
C7_SetupArity ==
    \A g \in DOMAIN SetupFields :
        /\ g \in DOMAIN classes =>
              /\ classes[g].fields = SetupFields[g]
              /\ classes[g].defaults = <<>>
        /\ (IsCallOf(g) /\ result.call.kw = {}) =>
              IF result.call.n = Len(SetupFields[g])
              THEN /\ result.tag = "record"
                   /\ result.fields = SetupFields[g]
                   /\ result.values = PosArgs(result.call.n)
              ELSE /\ result.tag = "TypeError"
                   /\ "values" \notin DOMAIN result

C7_Witness ==
    IsCallOf("RunSetup") /\ result.call.kw = {} /\ result.call.n = 2
        /\ result.tag = "TypeError"

\* C8: the flank table maps each chromosome to the pair declared for it, in
\* particular chr1 -> (10000, 10000), chr13 -> (16000000, 10000) and
\* chr21 -> (5010000, 10000), and every lookup of a chromosome returns that pair.
SamplePairs ==
    [chr1 |-> <<10000, 10000>>, chr13 |-> <<16000000, 10000>>,
     chr21 |-> <<5010000, 10000>>]

C8_FlankPairs ==
    /\ Executed("L5") =>
          /\ VALID_CHROM_FLANKS = FlankLiteral
          /\ \A k \in DOMAIN SamplePairs : VALID_CHROM_FLANKS[k] = SamplePairs[k]
    /\ result.tag = "pair" =>
          /\ result.val = FlankLiteral[result.key]
          /\ result.key \in DOMAIN SamplePairs => result.val = SamplePairs[result.key]

C8_Witness == result.tag = "pair" /\ result.key = "chr13"

\* C9: Scores has exactly the 5 fields acc, roc_auc, f1, prec, rec, in that order.
C9_ScoresFields ==
    /\ Executed("L48") =>
          /\ Len(classes["Scores"].fields) = 5
          /\ classes["Scores"].fields = <<"acc", "roc_auc", "f1", "prec", "rec">>
    /\ (IsCallOf("Scores") /\ result.call.kw = {}) =>
          IF result.call.n = 5
          THEN /\ result.tag = "record"
               /\ result.fields = <<"acc", "roc_auc", "f1", "prec", "rec">>
               /\ result.values = PosArgs(5)
          ELSE result.tag = "TypeError"

C9_Witness ==
    IsCallOf("Scores") /\ result.tag = "record" /\ result.values[2] = "a2"

\* C10: ColNames is the zero-argument factory exactly on interpreters older
\* than 3.7, and the record type with per-field defaults on 3.7 and newer,
\* 3.10, 3.11 and 3.12 included.
OlderThan37(info) == info[1] < 3 \/ (info[1] = 3 /\ info[2] < 7)

C10_VersionPath ==
    Executed("L38") =>
        (classes["ColNames"].kind = "lambda" <=> OlderThan37(sys.version_info))

\* C3: once the module is loaded nothing a consumer does changes the name
\* set, adds, removes or replaces an entry of the flank table, or changes a
\* field of a constructed record.
C3_ReadOnly ==
    [][pc = "loaded" =>
          /\ VALID_CHROM' = VALID_CHROM
          /\ VALID_CHROM_FLANKS' = VALID_CHROM_FLANKS
          /\ (result.tag = "record" /\ result'.tag = "AttributeError") =>
                result'.values = result.values]_vars

====
